---- MODULE Spec2Model ----
(***************************************************************************)
(* Relay hub of the PiDog cloud server (src/cloud_server.py): the          *)
(* websocket sessions, the per-client stores (clients, latest_frames,      *)
(* latest_detections, client_status), the background detection task and    *)
(* the command path of the ConnectionManager.                              *)
(*                                                                         *)
(* The hub is one asyncio event loop: code between two awaits runs without *)
(* interleaving, so every action below is the code between two awaits.     *)
(* detect_persons is called synchronously by the background task: while it *)
(* runs the event loop thread is occupied and no coroutine of the hub can  *)
(* take a step.  The clock, the peers and the model loading thread are not *)
(* on the event loop and move at any time.                                 *)
(*                                                                         *)
(* Time is counted in units of 0.1 s, the sleep of the background task.    *)
(*                                                                         *)
(* The robot's side: the websocket client (src/pidog_client.py) with its   *)
(* message handler and its distance sensor thread, which run in different  *)
(* threads and share auto_mode without a lock; the standalone tracker      *)
(* (src/pidog_person_tracker.py) with its main loop and its Flask routes;  *)
(* and get_reliable_distance of both programs.  The client's clock counts  *)
(* units of 0.5 s, the sleep of the sensor thread; distances returned by   *)
(* get_reliable_distance are in hundredths of a centimetre.                *)
(***************************************************************************)
EXTENDS Integers, FiniteSets, Sequences, TLC

\* ---------------------------------------------------------------- bounds
MaxConns == 2
MaxTime == 5
MaxImage == 1

\* ------------------------------------------------------ program constants
\* DETECTION_INTERVAL = 0.5 s, in units of 0.1 s
DETECTION_INTERVAL == 5

Clients == {"robot-1", "robot-2"}
Conns == 1..MaxConns
NoConn == 0

\* time.time() is seconds since the epoch: far more than DETECTION_INTERVAL
\* above the default timestamp 0 of a client without detection.
StartTime == DETECTION_INTERVAL
EndTime == StartTime + MaxTime

VARIABLES
    wsState,            \* per websocket: position of its websocket_endpoint coroutine
    wsClient,           \* per websocket: the client_id of its path /ws/{client_id}
    active_connections, \* ConnectionManager.active_connections: client_id -> websocket
    clients,            \* keys of the dict clients
    latest_frames,      \* latest_frames: client_id -> frame_data field stored
    latest_detections,  \* latest_detections: client_id -> detection result
    client_status,      \* client_status: client_id -> status dict
    model_loaded,       \* global model_loaded
    now,                \* time.time()
    schedPc,            \* position of run_detection_on_client_frames
    scanRest,           \* clients the for loop of the current pass has not visited yet
    slept,              \* the background task can begin a pass: it has not begun its first
                        \* one, or the clock advanced since its asyncio.sleep(0.1) began
    outstanding,        \* per client: detect_persons calls that have not returned
    detCall,            \* per client: current_time and model_loaded of the running call
    lastSubmit,         \* history: per client, time of the last detect_persons call
                        \* since the last disconnect(client_id); 0 without one
    bcast,              \* position and progress of ConnectionManager.broadcast
    lastOp              \* history: the operation that produced this state, with its result

hubVars == <<wsState, wsClient, active_connections, clients, latest_frames,
             latest_detections, client_status>>
schedVars == <<schedPc, scanRest, outstanding, detCall>>

\* everything of the hub, for the steps of the robot's processes
relayVars == <<hubVars, model_loaded, now, slept, schedVars, lastSubmit, bcast, lastOp>>

\* ------------------------------------------- the robot client's process
\* src/pidog_client.py: the globals the threads of one client share.  Its
\* time is counted in units of 0.5 s, the sleep of distance_sensor_thread.
VARIABLES
    clientPc,           \* main: "boot" before initialize_hardware, then "running"
    auto_mode,          \* global auto_mode
    has_imu,            \* global has_imu
    has_rgb,            \* global has_rgb
    has_speak,          \* hasattr(my_dog, 'speak')
    has_distance_sensor,\* global has_distance_sensor
    target_distance,    \* what the ultrasonic sensor faces, in cm
    distPc,             \* position of distance_sensor_thread
    sensWake,           \* when its time.sleep(0.5) is over
    clock,              \* the client's time.time()
    steadySince,        \* history: since when auto_mode is on with the target at
                        \* SteadyDistance; NotSteady otherwise
    barks,              \* history: autonomous speak('bark') calls since steadySince
    clientOp            \* history: what the step that produced this state did

clientVars == <<clientPc, auto_mode, has_imu, has_rgb, has_speak, has_distance_sensor,
                target_distance, distPc, sensWake, clock, steadySince, barks, clientOp>>

\* ---------------------------------------- the standalone tracker's process
\* src/pidog_person_tracker.py: the module globals, the position of the main
\* loop and what the camera faces.
VARIABLES
    trackerPc,                   \* main: "running" in its while loop, "crashed" once an
                                 \* exception has left main
    largest_person_bbox,         \* global largest_person_bbox: "None" or "bbox"
    frames_since_last_detection, \* global frames_since_last_detection
    tracker_auto_mode,           \* global auto_mode of the tracker
    tracker_has_imu,             \* global has_imu of the tracker
    local_fallback,              \* args.local_fallback
    tracker_model,               \* global model: "None" or "yolo"
    person_gone,                 \* the person has left the camera's view for good
    missed_results,              \* history: calls of process_detection_results in a row
                                 \* whose results held no detection
    trackerOp                    \* history: what the step that produced this state did

\* what main fixes before its loop
trackerConfig == <<tracker_has_imu, local_fallback, tracker_model>>

trackerVars == <<trackerPc, largest_person_bbox, frames_since_last_detection,
                 tracker_auto_mode, trackerConfig, person_gone, missed_results,
                 trackerOp>>

\* ------------------------------------------------- the distance sensor
\* what read_distance_method() / read_distance_sensor() give, call after call
VARIABLES
    readings,           \* the values the sensor gives, in order; <<>> before any is fixed
    readPos,            \* how many of them have been read
    filterOp            \* history: the last call of get_reliable_distance

filterVars == <<readings, readPos, filterOp>>

\* ------------------------------------------------ the detection service
\* src/app.py: the module globals, the threads that run load_model and the
\* handlers of POST /detect
VARIABLES
    app_model,          \* global model: "None" or "yolo"
    model_loading,      \* global model_loading
    app_model_loaded,   \* global model_loaded of app.py
    loaders,            \* per thread that runs load_model: its position
    requests,           \* per POST /detect: the position of its handler
    hooked,             \* before_first_request has run
    appOp               \* history: what the step that produced this state did

appVars == <<app_model, model_loading, app_model_loaded, loaders, requests, hooked, appOp>>

\* ------------------------------------------- the client's link to the hub
\* src/pidog_client.py: the globals of the websocket threads, the
\* WebSocketApp objects websocket_connection_manager has created, and the
\* positions of the manager and of the sender thread
VARIABLES
    ws,                 \* global ws: the WebSocketApp created last, 0 for None
    ws_connected,       \* global ws_connected
    sockets,            \* per WebSocketApp: "unused", "connecting", "open" or "closed"
    send_queue,         \* global send_queue
    sending,            \* sender thread: the message it took from send_queue
    managerPc,          \* websocket_connection_manager: "test" of ws_connected, or
                        \* "waiting" for the connection
    put_count,          \* history: number of messages ever put on send_queue
    linkOp              \* history: what the step that produced this state did

linkVars == <<ws, ws_connected, sockets, send_queue, sending, managerPc, put_count, linkOp>>

robotVars == <<clientVars, trackerVars, filterVars, appVars, linkVars>>

vars == <<relayVars, robotVars>>

\* ---------------------------------------------------------- frame payloads
\* An image is a number: 0 is a byte string that is no image (cv2.imdecode
\* gives None), 1..MaxImage are JPEG images.  A payload is the image under an
\* encoding: "hex" (bytes.hex), "b64" (base64.b64encode), or Python's None.
Images == 0..MaxImage
Hex(img) == [enc |-> "hex", img |-> img]
B64(img) == [enc |-> "b64", img |-> img]
PyNone == [enc |-> "none", img |-> 0]
Absent == [enc |-> "absent", img |-> 0]

\* bytes.fromhex(x): the bytes of a hex string; raises on None (TypeError) and
\* on text that is no hex string (ValueError), as base64 text is.
FromHexRaises(x) == x.enc # "hex"
FromHex(x) == x.img

\* cv2.imdecode(np.frombuffer(bytes), IMREAD_COLOR): the image, or None (0)
Imdecode(bytes) == bytes


\* ------------------------------------------------------- inbound messages
\* What websocket.receive_json() is given.  kind "object" is a JSON object;
\* "invalid_json" is text that is no JSON (json.loads raises); "non_object" is
\* JSON that is no object, a list or a number (message.get raises).  A field
\* holds "nokey" (Absent for a payload) when the object has no such top-level
\* key.  data_frame is the key "frame" of the nested object "data".
Message(type, frame_data, data_frame, has_camera, sensor, value) ==
    [kind |-> "object", type |-> type, frame_data |-> frame_data,
     data_frame |-> data_frame, has_camera |-> has_camera, sensor |-> sensor,
     value |-> value]

\* the envelope of camera_capture_thread: {"type": "camera_frame",
\* "data": {"frame": base64 text, "frame_id": n, "timestamp": t}}
ClientCameraFrame(img) == Message("camera_frame", Absent, B64(img), "nokey", "nokey", 0)
\* the message the camera_frame branch of websocket_endpoint reads:
\* {"type": "camera_frame", "frame_data": hex text}
HubCameraFrame(img) == Message("camera_frame", Hex(img), Absent, "nokey", "nokey", 0)
\* send_status_update: {"type": "status_update", "data": {...}}
ClientStatusUpdate == Message("status_update", Absent, Absent, "nokey", "nokey", 0)
HubStatusResponse(flag) == Message("status_response", Absent, Absent, flag, "nokey", 0)
HubSensorData(v) == Message("sensor_data", Absent, Absent, "nokey", "distance", v)
ActionResponse == Message("action_response", Absent, Absent, "nokey", "nokey", 0)
\* what send_status_update puts under "data"; has_camera is True in a
\* client whose camera opened
ClientStatusData == [has_camera |-> "True"]
\* the command_response of on_message
ClientCommandResponse == Message("command_response", Absent, Absent, "nokey", "nokey", 0)
NoTypeObject == Message("nokey", Absent, Absent, "nokey", "nokey", 0)
InvalidJson == [NoTypeObject EXCEPT !.kind = "invalid_json"]
NonObjectJson == [NoTypeObject EXCEPT !.kind = "non_object"]

CameraFrameMessages ==
    {ClientCameraFrame(i) : i \in 1..MaxImage} \cup {HubCameraFrame(i) : i \in Images}
MalformedMessages == {InvalidJson, NonObjectJson, NoTypeObject}
Messages ==
    CameraFrameMessages \cup MalformedMessages \cup {ClientStatusUpdate, ActionResponse}

\* messages whose type no branch of websocket_endpoint names
UnknownKindMessages == {ClientStatusUpdate, ClientCommandResponse, NoTypeObject}
SensorValues == {10, 50}
\* what the status and sensor branches are given, beside frames and the
\* unknown kinds
StatusMessages ==
    {HubCameraFrame(1)} \cup {HubStatusResponse(f) : f \in {"True", "nokey"}}
    \cup {HubSensorData(v) : v \in SensorValues} \cup UnknownKindMessages

\* message.get("frame_data"): None when the key is missing
GetFrameData(m) == IF m.frame_data = Absent THEN PyNone ELSE m.frame_data

\* ------------------------------------------------------------ store values
NoDetection == [present |-> FALSE, success |-> FALSE, count |-> 0, timestamp |-> 0]
StatusAbsent == [present |-> FALSE, has_camera |-> "nokey", sensors |-> FALSE, distance |-> 0]
EmptyStatus == [StatusAbsent EXCEPT !.present = TRUE]

NoOp == [op |-> "none", client |-> "", ret |-> "", http |-> 0, wrote |-> FALSE, had |-> FALSE]
NoCall == [current_time |-> 0, loaded |-> FALSE]
BcastIdle == [pc |-> "idle", snapshot |-> {}, todo |-> {}, delivered |-> {}, failed |-> {}]

\* ------------------------------------------ values of the robot's processes
\* bounds of the robot's side
MaxClientTime == 3
MaxFeed == 6
MaxFrames == 12
MaxBoxes == 2

\* bounds of the detection service: threads that run load_model, requests
MaxLoaders == 2
MaxRequests == 2

\* bounds of the client's link: WebSocketApp objects, messages put by the
\* threads other than on_open
MaxSockets == 3
MaxQueue == 2

\* EXPLOSION_DISTANCE = 20 (cm), in both programs; BARK_DISTANCE = 70 in the
\* tracker (distance_sensor_thread of the client writes the numbers 20, 70)
EXPLOSION_DISTANCE == 20
BARK_DISTANCE == 70
\* DETECTION_PERSISTENCE = 10 (cycles) of the tracker
DETECTION_PERSISTENCE == 10
\* get_reliable_distance(max_attempts=3, valid_range=(0, 1000))
\* MAX_RETRIES = 3 of the tracker's cloud requests
MAX_RETRIES == 3

MAX_ATTEMPTS == 3
VALID_RANGE_LOW == 0
VALID_RANGE_HIGH == 1000
\* time.sleep(0.5) of distance_sensor_thread, in units of 0.5 s
SENSOR_SLEEP == 1

\* a raw value of the sensor is a number of cm; RawNone is a read that gives
\* None, gives no number or raises.  A filtered distance is a number of
\* hundredths of a cm (round(x, 2)); NoDistance is Python's None.
RawNone == -9999
NoDistance == -1
Centi(cm) == 100 * cm

\* what the sensor of the client faces, and the distance the bark count is
\* taken at
Distances == {10, 15, 50}
SteadyDistance == 10
NotSteady == -1
\* a reading that is out of range, whatever the sensor faces
Glitch == -5

\* the devices of the Pidog object a handler calls
Devices == {"motion", "head", "speak", "rgb"}

NoClientOp ==
    [op |-> "none", command_type |-> "", action |-> "", manual |-> FALSE,
     missing |-> FALSE, called |-> {}, failed |-> {}, queued |-> <<>>,
     auto |-> FALSE, accepted |-> NoDistance, unknown |-> FALSE]
NoTrackerOp == [op |-> "none", command |-> "", status |-> "", missing |-> FALSE,
                called |-> {}, failed |-> {}, boxes |-> <<>>, selected |-> 0,
                replies |-> <<>>, requests |-> 0]
NoFilterOp == [op |-> "none", who |-> "", window |-> <<>>, result |-> NoDistance]
NoAppOp == [op |-> "none", thread |-> 0, http |-> 0]
NoMessage == [type |-> "", id |-> 0]
NoLinkOp == [op |-> "none", message |-> NoMessage, delivered |-> FALSE]

\* pidog_client.py before main has run: the module's globals
ClientInit ==
    /\ clientPc = "boot"
    /\ auto_mode = FALSE
    /\ has_imu = TRUE
    /\ has_rgb = TRUE
    /\ has_speak = FALSE
    /\ has_distance_sensor = TRUE
    /\ target_distance = SteadyDistance
    /\ distPc = "sleeping"
    /\ sensWake = 0
    /\ clock = 0
    /\ steadySince = NotSteady
    /\ barks = 0
    /\ clientOp = NoClientOp

\* pidog_person_tracker.py when main enters its while loop
TrackerInit ==
    /\ trackerPc = "boot"
    /\ largest_person_bbox = "None"
    /\ frames_since_last_detection = 0
    /\ tracker_auto_mode = FALSE
    /\ tracker_has_imu = TRUE
    /\ local_fallback = TRUE
    /\ tracker_model = "None"
    /\ person_gone = FALSE
    /\ missed_results = 0
    /\ trackerOp = NoTrackerOp

FilterInit ==
    /\ readings = <<>>
    /\ readPos = 0
    /\ filterOp = NoFilterOp

\* app.py when the module has been imported
AppInit ==
    /\ app_model = "None"
    /\ model_loading = FALSE
    /\ app_model_loaded = FALSE
    /\ loaders = [t \in 1..MaxLoaders |-> "unused"]
    /\ requests = [r \in 1..MaxRequests |-> "unused"]
    /\ hooked = FALSE
    /\ appOp = NoAppOp

\* the websocket globals of pidog_client.py before its threads run
LinkInit ==
    /\ ws = 0
    /\ ws_connected = FALSE
    /\ sockets = [k \in 1..MaxSockets |-> "unused"]
    /\ send_queue = <<>>
    /\ sending = NoMessage
    /\ managerPc = "test"
    /\ put_count = 0
    /\ linkOp = NoLinkOp

\* -------------------------------------------------------------------- Init
Init ==
    /\ wsState = [w \in Conns |-> "unused"]
    /\ wsClient = [w \in Conns |-> ""]
    /\ active_connections = [c \in Clients |-> NoConn]
    /\ clients = {}
    /\ latest_frames = [c \in Clients |-> Absent]
    /\ latest_detections = [c \in Clients |-> NoDetection]
    /\ client_status = [c \in Clients |-> StatusAbsent]
    /\ model_loaded = FALSE
    /\ now = StartTime
    /\ schedPc = "sleeping"
    /\ scanRest = {}
    /\ slept = TRUE
    /\ outstanding = [c \in Clients |-> 0]
    /\ detCall = [c \in Clients |-> NoCall]
    /\ lastSubmit = [c \in Clients |-> 0]
    /\ bcast = BcastIdle
    /\ lastOp = NoOp
    /\ ClientInit
    /\ TrackerInit
    /\ FilterInit
    /\ AppInit
    /\ LinkInit

\* ------------------------------------------------------------- event loop
\* a coroutine other than the background task can take a step: the
\* background task is suspended in asyncio.sleep.  (While detect_persons
\* runs, the background task is inside its for loop.)
EventLoopFree == schedPc = "sleeping"

\* --------------------------------------------------- ConnectionManager
\* disconnect(client_id): each of the five dicts loses the key
ActiveAfterDisconnect(c) == [active_connections EXCEPT ![c] = NoConn]
ClientsAfterDisconnect(c) == clients \ {c}
FramesAfterDisconnect(c) == [latest_frames EXCEPT ![c] = Absent]
DetectionsKept(c) == latest_detections
DetectionsAfterDisconnect(c) == [latest_detections EXCEPT ![c] = NoDetection]
StatusAfterDisconnect(c) == [client_status EXCEPT ![c] = StatusAbsent]

\* the websocket the next connection is served on
FreeConns == {w \in Conns : wsState[w] = "unused"}
NextConn == CHOOSE w \in FreeConns : \A v \in FreeConns : w <= v

\* websocket_endpoint up to its first receive_json: manager.connect accepts
\* the websocket and registers it under client_id, whatever is registered
\* there; the websocket registered before is not touched.
Connect(c) ==
    /\ EventLoopFree
    /\ FreeConns # {}
    /\ wsState' = [wsState EXCEPT ![NextConn] = "open"]
    /\ wsClient' = [wsClient EXCEPT ![NextConn] = c]
    /\ active_connections' = [active_connections EXCEPT ![c] = NextConn]
    /\ clients' = clients \cup {c}
    /\ lastOp' = NoOp
    /\ UNCHANGED <<latest_frames, latest_detections, client_status, model_loaded,
                   now, slept, schedVars, lastSubmit, bcast>>
    /\ UNCHANGED robotVars

\* the peer of a websocket goes away (network loss, client exit); the
\* coroutine serving it learns of it at its next receive_json
PeerClose(w) ==
    /\ wsState[w] = "open"
    /\ wsState' = [wsState EXCEPT ![w] = "peer_closed"]
    /\ lastOp' = NoOp
    /\ UNCHANGED <<wsClient, active_connections, clients, latest_frames,
                   latest_detections, client_status, model_loaded, now, slept,
                   schedVars, lastSubmit, bcast>>
    /\ UNCHANGED robotVars

\* the end of websocket_endpoint: an exception leaves the while loop and the
\* finally clause calls manager.disconnect(client_id)
Terminate(w) ==
    /\ wsState' = [wsState EXCEPT ![w] = "done"]
    /\ active_connections' = ActiveAfterDisconnect(wsClient[w])
    /\ clients' = ClientsAfterDisconnect(wsClient[w])
    /\ latest_frames' = FramesAfterDisconnect(wsClient[w])
    /\ latest_detections' = DetectionsAfterDisconnect(wsClient[w])
    /\ client_status' = StatusAfterDisconnect(wsClient[w])
    /\ lastOp' = [NoOp EXCEPT !.op = "disconnect", !.client = wsClient[w],
                              !.had = (latest_frames[wsClient[w]] # Absent
                                       /\ latest_detections[wsClient[w]].present)]
    /\ lastSubmit' = [lastSubmit EXCEPT ![wsClient[w]] = 0]
    /\ UNCHANGED wsClient

\* receive_json raises WebSocketDisconnect
HandlerDisconnect(w) ==
    /\ EventLoopFree
    /\ wsState[w] = "peer_closed"
    /\ Terminate(w)
    /\ UNCHANGED <<model_loaded, now, slept, schedVars, bcast>>
    /\ UNCHANGED robotVars


\* PeerClose followed by HandlerDisconnect, as one step: between the two,
\* only a write on the websocket (the command path) tells the difference
ConnectionLost(w) ==
    /\ EventLoopFree
    /\ wsState[w] = "open"
    /\ Terminate(w)
    /\ UNCHANGED <<model_loaded, now, slept, schedVars, bcast>>
    /\ UNCHANGED robotVars

\* ------------------------------------------------- websocket_endpoint
\* the camera_frame branch: {"frame_data": message.get("frame_data"), ...}
\* (the "timestamp" stored beside it is read nowhere and is left out)
FrameStored(m) == GetFrameData(m)

\* the sensor_data branch
StatusAfterSensorData(st, m) ==
    IF m.sensor = "nokey"
    THEN (IF st.present THEN st ELSE EmptyStatus)
    ELSE [(IF st.present THEN st ELSE EmptyStatus) EXCEPT !.sensors = TRUE,
                                                          !.distance = m.value]

\* the status_response branch: the whole entry is replaced; has_camera is
\* message.get("has_camera", False) (has_imu, has_rgb, has_distance_sensor
\* are read the same way)
StatusAfterStatusResponse(m) ==
    [EmptyStatus EXCEPT !.has_camera = IF m.has_camera = "nokey" THEN "False"
                                       ELSE m.has_camera]

\* a dispatch that takes the client's "status_update" for a status_response
BranchStatusUpdate(m) ==
    IF m.type \in {"camera_frame", "sensor_data", "status_response"} THEN m.type
    ELSE IF m.type = "status_update" THEN "status_response"
    ELSE IF m.type \in {"action_response", "rgb_response", "speak_response"} THEN "log"
    ELSE "unknown"
\* the if/elif chain on message.get("type"): the branch that handles m; the
\* else branch only logs a warning
Branch(m) ==
    IF m.type \in {"camera_frame", "sensor_data", "status_response"} THEN m.type
    ELSE IF m.type \in {"action_response", "rgb_response", "speak_response"} THEN "log"
    ELSE "unknown"

\* one turn of the while loop: receive_json, then the branch of the type.
\* Text that is no JSON makes receive_json raise, JSON that is no object
\* makes message.get raise: both leave the loop through "except Exception"
\* and the finally clause.
HandlerReceive(w, m) ==
    /\ EventLoopFree
    /\ wsState[w] = "open"
    /\ IF m.kind # "object"
       THEN Terminate(w)
       ELSE /\ latest_frames' =
                   IF Branch(m) = "camera_frame"
                   THEN [latest_frames EXCEPT ![wsClient[w]] = FrameStored(m)]
                   ELSE latest_frames
            /\ client_status' =
                   IF Branch(m) = "sensor_data"
                   THEN [client_status EXCEPT ![wsClient[w]] =
                             StatusAfterSensorData(client_status[wsClient[w]], m)]
                   ELSE IF Branch(m) = "status_response"
                   THEN [client_status EXCEPT ![wsClient[w]] = StatusAfterStatusResponse(m)]
                   ELSE client_status
            /\ lastOp' = IF Branch(m) = "unknown"
                         THEN [NoOp EXCEPT !.op = "unknown_message", !.client = wsClient[w],
                                           !.had = /\ latest_frames[wsClient[w]] # Absent
                                                   /\ latest_detections[wsClient[w]].present
                                                   /\ client_status[wsClient[w]].present]
                         ELSE NoOp
            /\ UNCHANGED <<wsState, wsClient, active_connections, clients,
                           latest_detections, lastSubmit>>
    /\ UNCHANGED <<model_loaded, now, slept, schedVars, bcast>>
    /\ UNCHANGED robotVars

\* ------------------------------------------------------ query surface
\* get_latest_frame: 404 without entry; 500 when bytes.fromhex raises; else
\* 200 with the bytes
FrameNotFound == [status |-> 404, image |-> 0]
QueryLatestFrame(c) ==
    IF latest_frames[c] = Absent THEN FrameNotFound
    ELSE IF FromHexRaises(latest_frames[c]) THEN [status |-> 500, image |-> 0]
    ELSE [status |-> 200, image |-> FromHex(latest_frames[c])]
\* get_latest_detection: 404 without entry; else 200 with the entry
DetectionNotFound == [status |-> 404, result |-> NoDetection]
QueryLatestDetection(c) ==
    IF ~latest_detections[c].present THEN DetectionNotFound
    ELSE [status |-> 200, result |-> latest_detections[c]]

\* ------------------------------------------------- model loading thread
\* load_model, run by the thread startup_event starts: on success it sets
\* model_loaded; on failure model_loaded stays False.
LoadModel ==
    /\ ~model_loaded
    /\ model_loaded' = TRUE
    /\ lastOp' = NoOp
    /\ UNCHANGED <<hubVars, now, slept, schedVars, lastSubmit, bcast>>
    /\ UNCHANGED robotVars

\* the clock
Tick ==
    /\ now < EndTime
    /\ now' = now + 1
    /\ slept' = (schedPc = "sleeping")
    /\ lastOp' = NoOp
    /\ UNCHANGED <<hubVars, model_loaded, schedVars, lastSubmit, bcast>>
    /\ UNCHANGED robotVars

\* ------------------------------------------------------- detect_persons
\* outcome is what the model does with the image: "none" and "person" are
\* inferences finding 0 and 1 person, "raises" is an inference that raises.
DetectorOutcomes == {"person", "raises"}
FailedResult == [present |-> TRUE, success |-> FALSE, count |-> 0, timestamp |-> 0]
\* detect_persons without its guards: no result when the model is not
\* loaded or the inference raises
DetectPersonsUnguarded(loaded, outcome) ==
    IF ~loaded \/ outcome = "raises" THEN NoDetection
    ELSE [present |-> TRUE, success |-> TRUE,
          count |-> IF outcome = "person" THEN 1 ELSE 0, timestamp |-> 0]
\* the value detect_persons returns (the caller sets timestamp)
DetectPersons(loaded, outcome) ==
    IF ~loaded THEN FailedResult
    ELSE IF outcome = "raises" THEN FailedResult
    ELSE [present |-> TRUE, success |-> TRUE,
          count |-> IF outcome = "person" THEN 1 ELSE 0, timestamp |-> 0]

\* ------------------------------------- run_detection_on_client_frames
\* the test without the interval
IntervalIgnored(c) == now - latest_detections[c].timestamp >= 0
\* the test of the for loop for one client
IntervalElapsed(c) == now - latest_detections[c].timestamp >= DETECTION_INTERVAL
\* the frame decodes: bytes.fromhex does not raise and cv2.imdecode gives an image
FrameDecodes(c) ==
    /\ latest_frames[c] # Absent
    /\ ~FromHexRaises(latest_frames[c])
    /\ Imdecode(FromHex(latest_frames[c])) # 0
\* the for loop reaches the call of detect_persons for c
Eligible(c) == IntervalElapsed(c) /\ FrameDecodes(c)

\* detect_persons started as a task of its own
CallIsAsync == FALSE
\* "detection_result = detect_persons(frame)" is an ordinary call: the
\* coroutine goes on when it has returned
CallIsSynchronous == TRUE

\* The for loop over the clients in keys, up to its next call of
\* detect_persons: the client the call is for and the clients left for after
\* it, or no call at all.  The order of latest_frames.items() is left open; a
\* client visited without a call is left untouched.
PassOutcomes(keys) ==
    {[trigger |-> {c}, rest |-> r] : <<c, r>> \in
        {x \in keys \X SUBSET keys :
            /\ Eligible(x[1])
            /\ x[1] \notin x[2]
            /\ \A d \in keys \ (x[2] \cup {x[1]}) : ~Eligible(d)}}
    \cup (IF \E c \in keys : Eligible(c) THEN {}
          ELSE {[trigger |-> {}, rest |-> {}]})

\* the same when detect_persons were started without waiting for it: every
\* client that passes the test gets its call, and the loop ends
PassOutcomesAsync(keys) ==
    {[trigger |-> {c \in keys : Eligible(c)}, rest |-> {}]}

\* the effect of a pass outcome p on the background task; returned is the
\* client whose call has just returned, if any
PassEffect(p, returned) ==
    /\ outstanding' = [c \in Clients |->
                          outstanding[c] - (IF c \in returned THEN 1 ELSE 0)
                                         + (IF c \in p.trigger THEN 1 ELSE 0)]
    /\ detCall' = [c \in Clients |->
                      IF c \in p.trigger
                      THEN [current_time |-> now, loaded |-> model_loaded]
                      ELSE IF c \in returned THEN NoCall ELSE detCall[c]]
    /\ lastSubmit' = [c \in Clients |-> IF c \in p.trigger THEN now ELSE lastSubmit[c]]
    /\ scanRest' = p.rest
    /\ schedPc' = IF p.trigger # {} /\ CallIsSynchronous THEN "detecting" ELSE "sleeping"
    /\ slept' = FALSE

\* asyncio.sleep(0.1) is over: a pass of the for loop over
\* latest_frames.items() begins and runs to its first call of detect_persons
\* or, without one, to the next asyncio.sleep(0.1)
SchedPass ==
    /\ schedPc = "sleeping"
    /\ slept
    /\ \E p \in (IF CallIsSynchronous
                 THEN PassOutcomes({c \in Clients : latest_frames[c] # Absent})
                 ELSE PassOutcomesAsync({c \in Clients : latest_frames[c] # Absent})) :
           PassEffect(p, {})
    /\ lastOp' = NoOp
    /\ UNCHANGED <<hubVars, model_loaded, now, bcast>>
    /\ UNCHANGED robotVars

\* detection_result["timestamp"] = current_time: the time.time() read before
\* the test of the interval, so before the call of detect_persons
ResultTimestamp(c) == detCall[c].current_time

\* detect_persons returns: the result is stored with the current_time taken
\* before the call, and the for loop goes on to its next call or to the
\* sleep.  A result that is no value stands for an exception out of
\* detect_persons, which "except Exception" of the for loop logs.
DetectorReturn(c, outcome) ==
    /\ outstanding[c] > 0
    /\ latest_detections' =
           IF DetectPersons(detCall[c].loaded, outcome).present
           THEN [latest_detections EXCEPT ![c] =
                     [DetectPersons(detCall[c].loaded, outcome)
                          EXCEPT !.timestamp = ResultTimestamp(c)]]
           ELSE latest_detections
    /\ IF schedPc = "detecting"
       THEN \E p \in PassOutcomes(scanRest) : PassEffect(p, {c})
       ELSE /\ outstanding' = [outstanding EXCEPT ![c] = @ - 1]
            /\ detCall' = [detCall EXCEPT ![c] = NoCall]
            /\ UNCHANGED <<lastSubmit, scanRest, schedPc, slept>>
    /\ lastOp' = NoOp
    /\ UNCHANGED <<wsState, wsClient, active_connections, clients, latest_frames,
                   client_status, model_loaded, now, bcast>>
    /\ UNCHANGED robotVars

\* ------------------------------------------------------- command path
\* the write of send_json on a websocket: it raises once the peer is gone
WriteRaises(w) == wsState[w] # "open"

\* send_message without its try/except: the exception of the write escapes
SendMessageUnguarded(c) ==
    IF active_connections[c] # NoConn
    THEN (IF WriteRaises(active_connections[c])
          THEN [ret |-> "raised", wrote |-> FALSE]
          ELSE [ret |-> "True", wrote |-> TRUE])
    ELSE [ret |-> "False", wrote |-> FALSE]
\* ConnectionManager.send_message: [ret, wrote]
SendMessage(c) ==
    IF active_connections[c] # NoConn
    THEN (IF WriteRaises(active_connections[c])
          THEN [ret |-> "False", wrote |-> FALSE]
          ELSE [ret |-> "True", wrote |-> TRUE])
    ELSE [ret |-> "False", wrote |-> FALSE]

\* the write on the websocket registered for c is made and does not raise
WriteSucceeds(c) ==
    active_connections[c] # NoConn /\ ~WriteRaises(active_connections[c])

\* POST /client/{client_id}/command: 404 for a client_id that is not in
\* clients, else 200 or 500 by what send_message returns.  ret is the
\* outcome as a boolean, wrote tells whether the write was made.
SendCommand(c) ==
    /\ EventLoopFree
    /\ lastOp' =
           IF c \notin clients
           THEN [NoOp EXCEPT !.op = "send_command", !.client = c, !.ret = "False",
                             !.http = 404]
           ELSE [NoOp EXCEPT !.op = "send_command", !.client = c,
                             !.ret = SendMessage(c).ret,
                             !.wrote = WriteSucceeds(c),
                             !.http = IF SendMessage(c).ret = "True" THEN 200 ELSE 500]
    /\ UNCHANGED <<hubVars, model_loaded, now, slept, schedVars, lastSubmit, bcast>>
    /\ UNCHANGED robotVars

\* ConnectionManager.broadcast: the keys are copied, then one send_message
\* is awaited per key (the order of the keys is left open); an exception out
\* of send_message would end the coroutine.
BroadcastStart ==
    /\ EventLoopFree
    /\ bcast.pc # "sending"
    /\ bcast' = [BcastIdle EXCEPT
                    !.pc = "sending",
                    !.snapshot = {c \in Clients : active_connections[c] # NoConn},
                    !.todo = {c \in Clients : active_connections[c] # NoConn}]
    /\ lastOp' = NoOp
    /\ UNCHANGED <<hubVars, model_loaded, now, slept, schedVars, lastSubmit>>
    /\ UNCHANGED robotVars

BroadcastStep(c) ==
    /\ EventLoopFree
    /\ bcast.pc = "sending"
    /\ c \in bcast.todo
    /\ bcast' = IF SendMessage(c).ret = "raised"
                THEN [bcast EXCEPT !.pc = "done"]
                ELSE [bcast EXCEPT !.todo = @ \ {c},
                                   !.delivered = IF SendMessage(c).wrote
                                                 THEN @ \cup {c} ELSE @,
                                   !.failed = IF SendMessage(c).ret = "False"
                                              THEN @ \cup {c} ELSE @]
    /\ lastOp' = [NoOp EXCEPT !.op = "broadcast_send", !.client = c,
                              !.ret = SendMessage(c).ret,
                              !.wrote = WriteSucceeds(c)]
    /\ UNCHANGED <<hubVars, model_loaded, now, slept, schedVars, lastSubmit>>
    /\ UNCHANGED robotVars

BroadcastEnd ==
    /\ EventLoopFree
    /\ bcast.pc = "sending"
    /\ bcast.todo = {}
    /\ bcast' = [bcast EXCEPT !.pc = "done"]
    /\ lastOp' = NoOp
    /\ UNCHANGED <<hubVars, model_loaded, now, slept, schedVars, lastSubmit>>
    /\ UNCHANGED robotVars

\* =============================================================== robot client
\* src/pidog_client.py.  One client process: main, then its threads
\* (distance_sensor_thread, the websocket thread that runs on_message) over
\* the module's globals.  A thread is preempted between any two bytecodes:
\* a step below is one read or write of a global, or one call of the Pidog
\* object, together with the thread-local code around it.

\* ----------------------------------------------- get_reliable_distance
\* the test of the for loop, in the client: "value >= valid_range[0] and
\* value < valid_range[1]"
ClientValidReading(v) == v # RawNone /\ v >= VALID_RANGE_LOW /\ v < VALID_RANGE_HIGH
\* a test that lets every number pass
TrackerValidReadingAny(v) == v # RawNone
\* the same test in the tracker: "value > valid_range[0] and value <
\* valid_range[1]"
TrackerValidReading(v) == v # RawNone /\ v > VALID_RANGE_LOW /\ v < VALID_RANGE_HIGH

RECURSIVE SumSeq(_)
SumSeq(q) == IF q = <<>> THEN 0 ELSE Head(q) + SumSeq(Tail(q))

\* round(sum / n, 2), in hundredths: the hundredth nearest to sum / n.  (With
\* n <= 3 whole numbers no quotient lies halfway between two hundredths.)
Round2(sum, n) == (200 * sum + n) \div (2 * n)

\* the list readings after the for loop over the values in window
KeptReadings(who, window) ==
    SelectSeq(window, LAMBDA v : IF who = "client" THEN ClientValidReading(v)
                                 ELSE TrackerValidReading(v))

\* the samples of q inside the open range (0, 1000)
ValidSamples(q) ==
    SelectSeq(q, LAMBDA v : v # RawNone /\ v > VALID_RANGE_LOW /\ v < VALID_RANGE_HIGH)

\* get_reliable_distance of program who, when its max_attempts reads give
\* the values in window
GetReliableDistance(who, window) ==
    IF KeptReadings(who, window) = <<>> THEN NoDistance
    ELSE Round2(SumSeq(KeptReadings(who, window)), Len(KeptReadings(who, window)))

\* ------------------------------------------------------------------ main
\* initialize_hardware probes the Pidog object and sets the flags; main then
\* starts the threads.  (When it fails, main returns and no thread runs.)
InitializeHardware(imu, rgb, speak, sensor) ==
    /\ clientPc = "boot"
    /\ clientPc' = "running"
    /\ has_imu' = imu
    /\ has_rgb' = rgb
    /\ has_speak' = speak
    /\ has_distance_sensor' = sensor
    /\ clientOp' = NoClientOp
    /\ UNCHANGED <<auto_mode, target_distance, distPc, sensWake, clock, steadySince, barks>>
    /\ UNCHANGED <<relayVars, trackerVars, filterVars, appVars, linkVars>>

\* history: auto_mode is a2 and the sensor faces d2 after the step, in which
\* distance_sensor_thread called speak('bark') or not
SteadyUpdate(a2, d2, barked) ==
    /\ steadySince' = IF a2 /\ d2 = SteadyDistance
                      THEN (IF steadySince # NotSteady THEN steadySince ELSE clock)
                      ELSE NotSteady
    /\ barks' = IF a2 /\ d2 = SteadyDistance /\ steadySince # NotSteady
                THEN barks + (IF barked THEN 1 ELSE 0)
                ELSE 0

\* the clock of the client
ClientTick ==
    /\ clock < MaxClientTime
    /\ clock' = clock + 1
    /\ clientOp' = NoClientOp
    /\ UNCHANGED <<clientPc, auto_mode, has_imu, has_rgb, has_speak, has_distance_sensor,
                   target_distance, distPc, sensWake, steadySince, barks>>
    /\ UNCHANGED <<relayVars, trackerVars, filterVars, appVars, linkVars>>

\* what the sensor faces moves
EnvMove(d) ==
    /\ d # target_distance
    /\ target_distance' = d
    /\ SteadyUpdate(auto_mode, d, FALSE)
    /\ clientOp' = NoClientOp
    /\ UNCHANGED <<clientPc, auto_mode, has_imu, has_rgb, has_speak, has_distance_sensor,
                   distPc, sensWake, clock>>
    /\ UNCHANGED <<relayVars, trackerVars, filterVars, appVars, linkVars>>

\* ------------------------------------------------ distance_sensor_thread
\* where the thread goes after "if auto_mode and has_imu:" for the distance d
\* it has read; bark20 is "random.random() < 0.2"
SensorBranch(d, bark20) ==
    IF d = NoDistance \/ ~(auto_mode /\ has_imu) THEN "sleeping"
    ELSE IF d < Centi(EXPLOSION_DISTANCE)
         THEN (IF has_rgb THEN "explosion_rgb"
               ELSE IF has_speak THEN "explosion_bark" ELSE "sleeping")
    ELSE IF d < Centi(BARK_DISTANCE) /\ has_speak /\ bark20 THEN "bark"
    ELSE "sleeping"

\* one turn of the while loop up to its first call of the Pidog object: the
\* sleep is over, get_reliable_distance reads the sensor max_attempts times,
\* then the tests on auto_mode, has_imu and the distance.  Each read gives
\* what the sensor faces or a glitch.
SensorCycle(window, bark20) ==
    /\ clientPc = "running"
    /\ has_distance_sensor
    /\ distPc = "sleeping"
    /\ clock >= sensWake
    /\ distPc' = SensorBranch(GetReliableDistance("client", window), bark20)
    /\ sensWake' = IF SensorBranch(GetReliableDistance("client", window), bark20) = "sleeping"
                   THEN clock + SENSOR_SLEEP ELSE sensWake
    /\ clientOp' = [NoClientOp EXCEPT !.op = "sensor_cycle", !.auto = auto_mode,
                                      !.accepted = GetReliableDistance("client", window),
                                      !.unknown = ValidSamples(window) = <<>>]
    /\ UNCHANGED <<clientPc, auto_mode, has_imu, has_rgb, has_speak, has_distance_sensor,
                   target_distance, clock, steadySince, barks>>
    /\ UNCHANGED <<relayVars, trackerVars, filterVars, appVars, linkVars>>

\* my_dog.rgb_strip.set_mode('boom', 'red', delay=0.01) of the explosion
\* branch; what it raises is swallowed ("except: pass")
SensorRgb ==
    /\ distPc = "explosion_rgb"
    /\ distPc' = IF has_speak THEN "explosion_bark" ELSE "sleeping"
    /\ sensWake' = IF has_speak THEN sensWake ELSE clock + SENSOR_SLEEP
    /\ clientOp' = [NoClientOp EXCEPT !.op = "autonomous", !.called = {"rgb"},
                                      !.auto = auto_mode]
    /\ UNCHANGED <<clientPc, auto_mode, has_imu, has_rgb, has_speak, has_distance_sensor,
                   target_distance, clock, steadySince, barks>>
    /\ UNCHANGED <<relayVars, trackerVars, filterVars, appVars, linkVars>>

\* my_dog.speak('bark', 100) of the explosion branch or of the bark branch,
\* then time.sleep(0.5)
SensorBark ==
    /\ distPc \in {"explosion_bark", "bark"}
    /\ distPc' = "sleeping"
    /\ sensWake' = clock + SENSOR_SLEEP
    /\ SteadyUpdate(auto_mode, target_distance, TRUE)
    /\ clientOp' = [NoClientOp EXCEPT !.op = "autonomous", !.called = {"speak"},
                                      !.auto = auto_mode]
    /\ UNCHANGED <<clientPc, auto_mode, has_imu, has_rgb, has_speak, has_distance_sensor,
                   target_distance, clock>>
    /\ UNCHANGED <<relayVars, trackerVars, filterVars, appVars, linkVars>>

\* ------------------------------------------------------------ on_message
\* What the websocket thread hands to on_message.  kind "object" is a JSON
\* object, "invalid_json" text that json.loads rejects.  A field of "data"
\* that the object does not carry is "nokey" (data.get gives None).
Command(command_type, action, mode, color, sound) ==
    [kind |-> "object", type |-> "command", command_type |-> command_type,
     action |-> action, mode |-> mode, color |-> color, sound |-> sound]
ControlCommand(action) == Command("control", action, "nokey", "nokey", "nokey")
RgbCommand(mode, color) == Command("rgb_control", "nokey", mode, color, "nokey")
SpeakCommand(sound) == Command("speak", "nokey", "nokey", "nokey", sound)
SetModeCommand(mode) == Command("set_mode", "nokey", mode, "nokey", "nokey")
UnknownCommand == Command("reboot", "nokey", "nokey", "nokey", "nokey")
ConnectionEstablished == [UnknownCommand EXCEPT !.type = "connection_established"]
InvalidJsonText == [UnknownCommand EXCEPT !.kind = "invalid_json"]

\* The message send_command of the hub builds from a ClientCommand and
\* send_json writes: {"type": command.command_type, **command.data}.  The
\* keys of data land beside "type" (top); the object has no key
\* "command_type" and no nested object "data", the keys on_message reads.
SendCommandMessage(command_type, data) ==
    [kind |-> "object", type |-> command_type, command_type |-> "nokey",
     action |-> "nokey", mode |-> "nokey", color |-> "nokey", sound |-> "nokey",
     top |-> data]
\* commands an operator posts to /client/{client_id}/command
OperatorCommands ==
    {[command_type |-> "control", data |-> [action |-> "forward"]],
     [command_type |-> "set_mode", data |-> [mode |-> "auto"]]}

MovementActions == {"forward", "backward", "turn_left", "turn_right", "stand", "sit"}
ControlActions == {"forward", "bark", "aggressive_mode", "dance", "nokey"}
ClientMessages ==
    {ControlCommand(a) : a \in ControlActions}
    \cup {RgbCommand("boom", "red"), RgbCommand("boom", "nokey")}
    \cup {SpeakCommand("growl"), SpeakCommand("nokey")}
    \cup {SetModeCommand(m) : m \in {"auto", "manual", "turbo"}}
    \cup {UnknownCommand, ConnectionEstablished, InvalidJsonText}
    \cup {SendCommandMessage(k.command_type, k.data) : k \in OperatorCommands}

\* a message put on send_queue
CommandResponse(status) == [type |-> "command_response", status |-> status]
StatusUpdate == [type |-> "status_update", status |-> ""]

\* handle_control_action with the test on auto_mode turned round
HandleControlActionManualRefused(action, fail) ==
    IF ~has_imu /\ action \in MovementActions
    THEN [success |-> FALSE, called |-> {}]
    ELSE IF ~auto_mode /\ action \notin {"bark", "aggressive_mode"}
    THEN [success |-> FALSE, called |-> {}]
    ELSE IF action \in MovementActions
    THEN [success |-> "motion" \notin fail, called |-> {"motion"}]
    ELSE [success |-> FALSE, called |-> {}]
\* handle_control_action(action): [success, called].  fail is the set of
\* devices whose calls raise; called the devices it calls.  (my_dog is never
\* None in a client whose threads run.)
HandleControlAction(action, fail) ==
    IF ~has_imu /\ action \in MovementActions
    THEN [success |-> FALSE, called |-> {}]
    ELSE IF auto_mode /\ action \notin {"bark", "aggressive_mode"}
    THEN [success |-> FALSE, called |-> {}]
    ELSE IF action \in MovementActions
    THEN [success |-> "motion" \notin fail, called |-> {"motion"}]
    ELSE IF action = "bark"
    THEN (IF has_speak THEN [success |-> "speak" \notin fail, called |-> {"speak"}]
          ELSE [success |-> FALSE, called |-> {}])
    ELSE IF action = "aggressive_mode"
    THEN [success |-> (has_speak /\ "speak" \notin fail) \/ (has_rgb /\ "rgb" \notin fail),
          called |-> (IF has_speak THEN {"speak"} ELSE {})
                     \cup (IF has_rgb THEN {"rgb"} ELSE {})]
    ELSE [success |-> FALSE, called |-> {}]

\* a try block that puts its success response before the call it guards
TryResponsesEarly(raised) ==
    IF raised THEN <<CommandResponse("success"), CommandResponse("error")>>
    ELSE <<CommandResponse("success")>>
\* the try/except of the rgb_control and speak branches: the call, then the
\* success response; the error response in "except Exception"
TryResponses(raised) ==
    IF raised THEN <<CommandResponse("error")>> ELSE <<CommandResponse("success")>>

\* send_status_update: nothing when ws_connected is False
StatusUpdates(connected) == IF connected THEN <<StatusUpdate>> ELSE <<>>

\* what on_message puts on send_queue for msg, in order
Queued(msg, fail, connected) ==
    IF msg.kind # "object" THEN <<>>
    ELSE IF msg.type = "connection_established" THEN StatusUpdates(connected)
    ELSE IF msg.type # "command" THEN <<>>
    ELSE IF msg.command_type = "control"
    THEN (IF msg.action = "nokey" THEN <<>>
          ELSE <<CommandResponse(IF HandleControlAction(msg.action, fail).success
                                 THEN "success" ELSE "error")>>
               \o StatusUpdates(connected))
    ELSE IF msg.command_type = "rgb_control"
    THEN (IF msg.mode # "nokey" /\ msg.color # "nokey" /\ has_rgb
          THEN TryResponses("rgb" \in fail) ELSE <<>>)
    ELSE IF msg.command_type = "speak"
    THEN (IF msg.sound # "nokey" /\ has_speak
          THEN TryResponses("speak" \in fail) ELSE <<>>)
    ELSE IF msg.command_type = "set_mode"
    THEN (IF msg.mode \in {"auto", "manual"} THEN <<CommandResponse("success")>> ELSE <<>>)
    ELSE <<>>

\* the devices on_message calls for msg
Called(msg, fail) ==
    IF msg.kind # "object" \/ msg.type # "command" THEN {}
    ELSE IF msg.command_type = "control"
    THEN (IF msg.action = "nokey" THEN {} ELSE HandleControlAction(msg.action, fail).called)
    ELSE IF msg.command_type = "rgb_control"
    THEN (IF msg.mode # "nokey" /\ msg.color # "nokey" /\ has_rgb THEN {"rgb"} ELSE {})
    ELSE IF msg.command_type = "speak"
    THEN (IF msg.sound # "nokey" /\ has_speak THEN {"speak"} ELSE {})
    ELSE IF msg.command_type = "set_mode"
    THEN (IF msg.mode = "manual" /\ has_imu THEN {"head"} ELSE {})
    ELSE {}

\* auto_mode after on_message(msg): the set_mode branch writes it
AutoModeAfter(msg) ==
    IF /\ msg.kind = "object" /\ msg.type = "command" /\ msg.command_type = "set_mode"
       /\ msg.mode \in {"auto", "manual"}
    THEN msg.mode = "auto"
    ELSE auto_mode

\* the capability the command needs is missing on this robot
CapabilityMissing(msg) ==
    /\ msg.kind = "object" /\ msg.type = "command"
    /\ \/ /\ msg.command_type = "control"
          /\ \/ msg.action \in MovementActions /\ ~has_imu
             \/ msg.action = "bark" /\ ~has_speak
             \/ msg.action = "aggressive_mode" /\ ~has_speak /\ ~has_rgb
       \/ msg.command_type = "rgb_control" /\ msg.mode # "nokey" /\ msg.color # "nokey"
                                           /\ ~has_rgb
       \/ msg.command_type = "speak" /\ msg.sound # "nokey" /\ ~has_speak

\* on_message(ws, message), run by the websocket thread.  What its calls of
\* the Pidog object raise is caught inside it (the branches' own try blocks
\* and the outer "except Exception"); connected is ws_connected when
\* send_status_update reads it.
OnMessage(msg, fail, connected) ==
    /\ clientPc = "running"
    /\ auto_mode' = AutoModeAfter(msg)
    /\ SteadyUpdate(AutoModeAfter(msg), target_distance, FALSE)
    /\ clientOp' = [NoClientOp EXCEPT
                       !.op = "on_message",
                       !.command_type = IF msg.kind = "object" /\ msg.type = "command"
                                        THEN msg.command_type ELSE "",
                       !.action = msg.action,
                       !.manual = ~auto_mode,
                       !.missing = CapabilityMissing(msg),
                       !.called = Called(msg, fail),
                       !.failed = Called(msg, fail) \cap fail,
                       !.queued = Queued(msg, fail, connected)]
    /\ UNCHANGED <<clientPc, has_imu, has_rgb, has_speak, has_distance_sensor,
                   target_distance, distPc, sensWake, clock>>
    /\ UNCHANGED <<relayVars, trackerVars, filterVars, appVars, linkVars>>

\* the client: its hardware, its clock, what its sensor faces, the distance
\* thread and the commands it receives
NextClient ==
    \/ \E imu, rgb, speak, sensor \in BOOLEAN : InitializeHardware(imu, rgb, speak, sensor)
    \/ ClientTick
    \/ \E d \in Distances : EnvMove(d)
    \/ \E window \in [1..MAX_ATTEMPTS -> {target_distance, Glitch}], bark20 \in BOOLEAN :
           SensorCycle(window, bark20)
    \/ SensorRgb
    \/ SensorBark
    \/ \E msg \in ClientMessages, connected \in BOOLEAN :
           \E fail \in SUBSET Called(msg, {}) : OnMessage(msg, fail, connected)

SpecClient == Init /\ [][NextClient]_vars

\* ------------------------------------------------------------------- Next
\* the sessions, the camera frames and the background detection task
Next ==
    \/ \E c \in Clients : Connect(c)
    \/ \E w \in Conns : ConnectionLost(w)
    \/ \E w \in Conns, m \in CameraFrameMessages : HandlerReceive(w, m)
    \/ LoadModel
    \/ Tick
    \/ SchedPass
    \/ \E c \in Clients, o \in DetectorOutcomes : DetectorReturn(c, o)

Spec == Init /\ [][Next]_vars

\* the sessions, every kind of inbound message and the command path.  The
\* clock and the background task are left where Init puts them: these
\* actions read and write the websockets and the dicts the handlers own,
\* which the background task never writes.
NextSessions ==
    \/ \E c \in Clients : Connect(c)
    \/ \E w \in Conns : PeerClose(w)
    \/ \E w \in Conns : HandlerDisconnect(w)
    \/ \E w \in Conns, m \in Messages : HandlerReceive(w, m)
    \/ \E c \in Clients : SendCommand(c)
    \/ BroadcastStart
    \/ \E c \in Clients : BroadcastStep(c)
    \/ BroadcastEnd

SpecSessions == Init /\ [][NextSessions]_vars

\* the status and sensor messages, with frames stored and the detection
\* task making the pass it makes at start
NextStatus ==
    \/ \E c \in Clients : Connect(c)
    \/ \E w \in Conns, m \in StatusMessages : HandlerReceive(w, m)
    \/ LoadModel
    \/ SchedPass
    \/ \E c \in Clients, o \in DetectorOutcomes : DetectorReturn(c, o)

SpecStatus == Init /\ [][NextStatus]_vars

\* ================================================================ claims

\* C1: right after Disconnect(c), whatever happened before, the hub holds no
\* frame and no detection for c: QueryLatestFrame(c) and
\* QueryLatestDetection(c) both answer NotFound.
C1_DisconnectClearsStores ==
    lastOp.op = "disconnect" =>
        /\ QueryLatestFrame(lastOp.client) = FrameNotFound
        /\ QueryLatestDetection(lastOp.client) = DetectionNotFound
\* a disconnect of a client that had a frame and a detection stored
C1_Witness == lastOp.op = "disconnect" /\ lastOp.had

\* C2: at any time at most one detect_persons call is outstanding for any
\* session, also when a call lasts as long as DETECTION_INTERVAL or longer:
\* no pass of the background task starts a second call for a session whose
\* call has not returned.
C2_AtMostOneInFlight == \A c \in Clients : outstanding[c] <= 1
\* a call that has lasted DETECTION_INTERVAL, for a session a pass would
\* submit again if it ran
C2_Witness ==
    \E c \in Clients :
        /\ outstanding[c] = 1
        /\ now - detCall[c].current_time >= DETECTION_INTERVAL
        /\ Eligible(c)

\* C3: when Connect(c) replaces the websocket registered for c, the new
\* websocket is the one registered and the old one is closed by the hub.
C3_ReconnectClosesOld ==
    [][\A c \in Clients :
          (active_connections[c] # NoConn
             /\ active_connections'[c] \notin {NoConn, active_connections[c]})
          => wsState'[active_connections[c]] \notin {"open", "peer_closed"}]_vars

\* C4: a malformed inbound message (text that is no JSON, JSON that is no
\* object, an object without type) never terminates the session: after it
\* the websocket's handler still runs and the client is still in clients.
C4_MalformedKeepsSession ==
    [][\A w \in Conns, m \in MalformedMessages :
          HandlerReceive(w, m) =>
              /\ wsState'[w] = "open"
              /\ (wsClient[w] \in clients => wsClient[w] \in clients')]_vars

\* C5: a camera_frame message in the envelope the robot client emits is
\* stored as the session's latest frame in the form the background task
\* decodes (bytes.fromhex, then cv2.imdecode), so that the next pass with an
\* elapsed interval calls the detector on it.
C5_ClientFrameDecodes ==
    [][\A w \in Conns, i \in 1..MaxImage :
          HandlerReceive(w, ClientCameraFrame(i)) =>
              /\ latest_frames'[wsClient[w]] # Absent
              /\ ~FromHexRaises(latest_frames'[wsClient[w]])
              /\ Imdecode(FromHex(latest_frames'[wsClient[w]])) = i]_vars

\* the image a camera_frame message carries
ImageOf(m) == IF m.frame_data # Absent THEN m.frame_data.img ELSE m.data_frame.img

\* C6: after a camera_frame message of a session is ingested, the frame
\* QueryLatestFrame gives for the session is the frame of that message (the
\* second of any two), and no other.
C6_LastFrameRetrievable ==
    [][\A w \in Conns, m \in CameraFrameMessages :
          HandlerReceive(w, m) =>
              (QueryLatestFrame(wsClient[w]))' = [status |-> 200, image |-> ImageOf(m)]]_vars

\* C7: for any one session (the store entries of a client id between two
\* Disconnect of it), a detect_persons call is submitted no sooner than
\* DETECTION_INTERVAL after the call submitted before it, whatever was
\* ingested in between.
C7_DetectionsIntervalApart ==
    [][\A c \in Clients :
          (outstanding'[c] > outstanding[c] /\ lastSubmit[c] # 0)
          => now - lastSubmit[c] >= DETECTION_INTERVAL]_vars
\* a second call for a session whose earlier call has stored its result
C7_Witness ==
    \E c \in Clients :
        /\ outstanding[c] = 1
        /\ latest_detections[c].present
        /\ detCall[c].current_time - latest_detections[c].timestamp >= DETECTION_INTERVAL

\* a pass that begins now can call detect_persons for c
PassCanSubmit(c) ==
    \E p \in PassOutcomes({d \in Clients : latest_frames[d] # Absent}) : c \in p.trigger

\* C8: a detector failure (model not loaded, or inference raising) is stored
\* as a result with success = false for the session, and the background task
\* goes on: once the interval has elapsed, a pass calls the detector for the
\* session again.
C8_FailureRecordedAndRetried ==
    /\ [][\A c \in Clients, o \in DetectorOutcomes :
             (DetectorReturn(c, o) /\ (~detCall[c].loaded \/ o = "raises"))
             => /\ latest_detections'[c].present
                /\ ~latest_detections'[c].success
                /\ latest_detections'[c].timestamp = detCall[c].current_time
                /\ schedPc' \in {"sleeping", "detecting"}]_vars
    /\ [](\A c \in Clients :
             (/\ latest_detections[c].present
              /\ ~latest_detections[c].success
              /\ now - latest_detections[c].timestamp >= DETECTION_INTERVAL
              /\ FrameDecodes(c)
              /\ schedPc = "sleeping" /\ slept)
             => PassCanSubmit(c))
\* a failed result is stored and a later pass has called the detector again
C8_Witness ==
    \E c \in Clients :
        /\ latest_detections[c].present
        /\ ~latest_detections[c].success
        /\ outstanding[c] = 1
        /\ detCall[c].current_time > latest_detections[c].timestamp

\* C9: SendCommand(c, command) never raises; it returns false when c has no
\* session and when the write on c's websocket fails, and true only when
\* the write succeeded.
C9_SendCommandResult ==
    lastOp.op = "send_command" =>
        /\ lastOp.ret \in {"True", "False"}
        /\ (lastOp.ret = "True" <=> lastOp.wrote)
        /\ (lastOp.client \notin clients => lastOp.ret = "False")
        /\ (~WriteSucceeds(lastOp.client) => lastOp.ret = "False")
\* a command to a connected client whose write failed
C9_Witness ==
    /\ lastOp.op = "send_command"
    /\ lastOp.client \in clients
    /\ active_connections[lastOp.client] # NoConn
    /\ lastOp.ret = "False"

\* C10: Broadcast sends to every session of its snapshot, whatever sends
\* failed before: it ends only when none is left, and every send whose
\* write the websocket accepts is a delivery.
C10_BroadcastReachesAll ==
    /\ (bcast.pc = "done" => bcast.todo = {})
    /\ (lastOp.op = "broadcast_send" /\ lastOp.wrote
            => lastOp.client \in bcast.delivered)
\* a delivery made after the send to another session failed
C10_Witness ==
    /\ lastOp.op = "broadcast_send"
    /\ lastOp.wrote
    /\ lastOp.client \in bcast.delivered
    /\ bcast.failed # {}

\* ------------------------------------------- pidog_person_tracker.py: main
\* main up to its loop, of a tracker started with --cloud-api: the arguments
\* are parsed, the Pidog object is created and probed, the IMU flag set, the
\* local model loaded when the fallback is asked for (yolo: YOLO("yolov8n.pt")
\* does not raise), the Flask and capture threads started
TrackerSetup(imu, fallback, yolo) ==
    /\ trackerPc = "boot"
    /\ trackerPc' = "running"
    /\ tracker_has_imu' = imu
    /\ local_fallback' = fallback
    /\ tracker_model' = IF fallback /\ yolo THEN "yolo" ELSE "None"
    /\ trackerOp' = NoTrackerOp
    /\ UNCHANGED <<largest_person_bbox, frames_since_last_detection, tracker_auto_mode,
                   person_gone, missed_results>>
    /\ UNCHANGED <<relayVars, clientVars, filterVars, appVars, linkVars>>

\* what the detection step of one turn of the loop comes to: a person found,
\* a successful result without detections, a result that is None or not
\* successful, no call of process_detection_results (the cloud gave nothing
\* and there is no fallback), or no detection this turn (the interval has
\* not elapsed)
Outcomes == {"person", "none", "failed", "unanswered", "skipped"}

\* ------------------------- pidog_person_tracker.py: process_detection_results
\* A detection carries a bounding box, of which the selection reads the width
\* and the height.  results is None, a dict whose "success" is false, or a
\* successful dict with its list of detections.
Box(w, h) == [width |-> w, height |-> h]
\* widths and heights, in pixels
Dims == {0, 1, 2}
Boxes == {Box(w, h) : w \in Dims, h \in Dims}
RECURSIVE BoxLists(_)
BoxLists(n) ==
    IF n = 0 THEN {<<>>}
    ELSE BoxLists(n - 1) \cup {Append(l, b) : l \in {k \in BoxLists(n - 1) : Len(k) = n - 1},
                                               b \in Boxes}
ResultsNone == [kind |-> "None", detections |-> <<>>]
ResultsFailed == [kind |-> "failed", detections |-> <<>>]
ResultsSuccess(detections) == [kind |-> "success", detections |-> detections]

Area(bbox) == bbox.width * bbox.height

\* the loop over the detections from index i on, with the largest area seen
\* so far and the index of its detection (0: largest_detection is None)
RECURSIVE Scan(_, _, _, _)
Scan(detections, i, largest_area, largest_detection) ==
    IF i > Len(detections) THEN largest_detection
    ELSE IF Area(detections[i]) > largest_area
         THEN Scan(detections, i + 1, Area(detections[i]), i)
         ELSE Scan(detections, i + 1, largest_area, largest_detection)

\* ("if area >= largest_area": the last of the detections of the largest area)
LargestDetectionLastWins(detections) ==
    IF \A i \in 1..Len(detections) : Area(detections[i]) = 0 THEN 0
    ELSE CHOOSE i \in 1..Len(detections) :
             /\ \A j \in 1..Len(detections) : Area(detections[j]) <= Area(detections[i])
             /\ \A j \in (i + 1)..Len(detections) : Area(detections[j]) < Area(detections[i])
\* the index of largest_detection after the loop, 0 for None
LargestDetection(detections) == Scan(detections, 1, 0, 0)

\* frames_since_last_detection after process_detection_results(results)
CounterAfterResults(results) ==
    IF results.kind # "success" \/ results.detections = <<>>
    THEN frames_since_last_detection + 1
    ELSE IF LargestDetection(results.detections) # 0 THEN 0
    ELSE frames_since_last_detection
\* largest_person_bbox after process_detection_results(results)
BboxAfterResults(results) ==
    IF results.kind # "success" THEN largest_person_bbox
    ELSE IF results.detections = <<>>
    THEN (IF CounterAfterResults(results) > DETECTION_PERSISTENCE THEN "None"
          ELSE largest_person_bbox)
    ELSE IF LargestDetection(results.detections) # 0 THEN "bbox"
    ELSE largest_person_bbox
\* history: the calls in a row without a detection, after this one
MissedAfterResults(results) ==
    IF results.kind = "success" /\ results.detections # <<>> THEN 0
    ELSE missed_results + 1

\* one call of process_detection_results(results)
ProcessDetectionResults(results) ==
    /\ CounterAfterResults(results) <= MaxFrames
    /\ frames_since_last_detection' = CounterAfterResults(results)
    /\ largest_person_bbox' = BboxAfterResults(results)
    /\ missed_results' = MissedAfterResults(results)
    /\ trackerOp' = [NoTrackerOp EXCEPT
                         !.op = "process_detection_results", !.command = results.kind,
                         !.boxes = results.detections,
                         !.selected = IF results.kind = "success"
                                      THEN LargestDetection(results.detections) ELSE 0]
    /\ UNCHANGED <<trackerPc, tracker_auto_mode, trackerConfig, person_gone>>
    /\ UNCHANGED <<relayVars, clientVars, filterVars, appVars, linkVars>>

\* np.argmax over the areas of the boxes from index i on, best being the
\* index of the largest area before i: the first index of the maximum
RECURSIVE ArgMaxFrom(_, _, _)
ArgMaxFrom(boxes, i, best) ==
    IF i > Len(boxes) THEN best
    ELSE IF Area(boxes[i]) > Area(boxes[best]) THEN ArgMaxFrom(boxes, i + 1, i)
    ELSE ArgMaxFrom(boxes, i + 1, best)

\* src/utils.py find_closest_person(boxes, confidences): the index np.argmax
\* gives for the areas, the first index of their maximum; 0 stands for the
\* None it returns for an empty list.  A box is (x1, y1, x2, y2) there: its
\* width is x2 - x1 and its height y2 - y1.
FindClosestPerson(boxes) ==
    IF boxes = <<>> THEN 0 ELSE ArgMaxFrom(boxes, 2, 1)

\* one call of find_closest_person
FindClosestPersonCall(boxes) ==
    /\ trackerOp' = [NoTrackerOp EXCEPT !.op = "find_closest_person", !.boxes = boxes,
                                        !.selected = FindClosestPerson(boxes)]
    /\ UNCHANGED <<trackerPc, largest_person_bbox, frames_since_last_detection,
                   tracker_auto_mode, trackerConfig, person_gone, missed_results>>
    /\ UNCHANGED <<relayVars, clientVars, filterVars, appVars, linkVars>>

\* the results the detection step of a turn of the loop hands over
ResultsOf(outcome) ==
    IF outcome = "person" THEN ResultsSuccess(<<Box(1, 1)>>)
    ELSE IF outcome = "none" THEN ResultsSuccess(<<>>)
    ELSE ResultsFailed

\* the module's frames_since_last_detection after the detection step, capped
\* by MaxFrames
CounterAfter(outcome) ==
    IF outcome \in {"person", "none", "failed"} THEN CounterAfterResults(ResultsOf(outcome))
    ELSE frames_since_last_detection
\* largest_person_bbox after the detection step
BboxAfter(outcome) ==
    IF outcome \in {"person", "none", "failed"} THEN BboxAfterResults(ResultsOf(outcome))
    ELSE largest_person_bbox

\* main assigns frames_since_last_detection ("+= 1" in the else branch of
\* the detection step) and does not declare it global: the name is local to
\* main and never bound, so reading it raises UnboundLocalError, in that
\* else branch and in the drawing of the bounding box
Raises(outcome) == outcome = "skipped" \/ BboxAfter(outcome) # "None"

\* one turn of "while True" in main.  Nothing in main catches the error: it
\* ends main, and the program with it (its other threads are daemons).
TrackerCycle(outcome) ==
    /\ trackerPc = "running"
    /\ outcome = "person" => ~person_gone
    /\ CounterAfter(outcome) <= MaxFrames
    /\ frames_since_last_detection' = CounterAfter(outcome)
    /\ largest_person_bbox' = BboxAfter(outcome)
    /\ trackerPc' = IF Raises(outcome) THEN "crashed" ELSE "running"
    /\ missed_results' = IF outcome \in {"person", "none", "failed"}
                         THEN MissedAfterResults(ResultsOf(outcome)) ELSE missed_results
    /\ trackerOp' = [NoTrackerOp EXCEPT !.op = "cycle", !.command = outcome]
    /\ UNCHANGED <<tracker_auto_mode, trackerConfig, person_gone>>
    /\ UNCHANGED <<relayVars, clientVars, filterVars, appVars, linkVars>>

\* ------------------------------- pidog_person_tracker.py: the detection step
\* what one request to the cloud API comes to: status 200 with the results,
\* another status, or a RequestException (the timeout of CLOUD_API_TIMEOUT
\* seconds is one)
Replies == {"ok", "status_error", "exception"}

\* detect_persons_cloud(image, retry_count), replies[i] being what the i-th
\* request of the call gives: whether results are returned, and the number of
\* requests made
RECURSIVE DetectPersonsCloud(_, _)
DetectPersonsCloud(replies, retry_count) ==
    IF replies[retry_count + 1] = "ok"
    THEN [answered |-> TRUE, requests |-> retry_count + 1]
    ELSE IF retry_count < MAX_RETRIES THEN DetectPersonsCloud(replies, retry_count + 1)
    ELSE [answered |-> FALSE, requests |-> retry_count + 1]

\* (a detection step that never falls back)
DetectorUsedCloudOnly(answered) == IF answered THEN "cloud" ELSE "none"
\* whose results the step hands to process_detection_results: "if
\* cloud_results: ... elif args.local_fallback and model is not None: ..."
DetectorUsed(answered) ==
    IF answered THEN "cloud"
    ELSE IF local_fallback /\ tracker_model # "None" THEN "local"
    ELSE "none"

\* what the cloud API returns with status 200, and what detect_persons_local
\* returns
CloudResults == {ResultsSuccess(<<Box(1, 1)>>), ResultsSuccess(<<>>), ResultsFailed}
LocalResults == {ResultsSuccess(<<Box(1, 1)>>), ResultsSuccess(<<>>), ResultsNone}

\* one turn of the loop whose detection is due: the cloud is asked, its
\* results or those of the local model are processed (results: what the
\* detector used returns, None when none is used), the box is drawn (line
\* 945 raises when there is one)
CloudCycle(replies, results) ==
    LET call == DetectPersonsCloud(replies, 0)
        used == DetectorUsed(call.answered)
        counter == IF used = "none" THEN frames_since_last_detection
                   ELSE CounterAfterResults(results)
        bbox == IF used = "none" THEN largest_person_bbox ELSE BboxAfterResults(results)
    IN  /\ trackerPc = "running"
        /\ results \in (IF used = "cloud" THEN CloudResults
                         ELSE IF used = "local" THEN LocalResults ELSE {ResultsNone})
        /\ (used # "none" /\ results.detections # <<>>) => ~person_gone
        /\ counter <= MaxFrames
        /\ frames_since_last_detection' = counter
        /\ largest_person_bbox' = bbox
        /\ missed_results' = IF used = "none" THEN missed_results
                             ELSE MissedAfterResults(results)
        /\ trackerPc' = IF bbox # "None" THEN "crashed" ELSE "running"
        /\ trackerOp' = [NoTrackerOp EXCEPT
                             !.op = "cloud_cycle", !.command = used,
                             !.replies = replies, !.requests = call.requests,
                             !.called = {"detect_persons_cloud"}
                                 \cup (IF used = "local" THEN {"detect_persons_local"} ELSE {})
                                 \cup (IF used # "none" THEN {"process_detection_results"}
                                       ELSE {})]
        /\ UNCHANGED <<tracker_auto_mode, trackerConfig, person_gone>>
        /\ UNCHANGED <<relayVars, clientVars, filterVars, appVars, linkVars>>

\* the person walks out of the camera's view, or into it
EnvPerson ==
    /\ person_gone' = ~person_gone
    /\ trackerOp' = NoTrackerOp
    /\ UNCHANGED <<trackerPc, largest_person_bbox, frames_since_last_detection,
                   tracker_auto_mode, trackerConfig, missed_results>>
    /\ UNCHANGED <<relayVars, clientVars, filterVars, appVars, linkVars>>

\* GET /toggle_mode, served by the Flask thread
ToggleMode ==
    /\ trackerPc = "running"
    /\ tracker_auto_mode' = ~tracker_auto_mode
    /\ trackerOp' = [NoTrackerOp EXCEPT !.op = "toggle_mode"]
    /\ UNCHANGED <<trackerPc, largest_person_bbox, frames_since_last_detection,
                   trackerConfig, person_gone, missed_results>>
    /\ UNCHANGED <<relayVars, clientVars, filterVars, appVars, linkVars>>

TrackerCommands == {"forward", "sit", "bark", "aggressive_mode", "dance", "nokey"}

\* the devices execute_command calls for command on a robot with the
\* devices caps
CommandCalls(command, caps) ==
    IF command \in {"aggressive_mode", "bark"} THEN {"speak", "rgb"} \cap caps
    ELSE IF command \in MovementActions /\ tracker_has_imu THEN {"motion"}
    ELSE {}

\* the status execute_command answers with, when the calls of the devices
\* in fail raise
CommandStatus(command, fail) ==
    IF command \in {"aggressive_mode", "bark"} THEN "success"
    ELSE IF command \in MovementActions
    THEN (IF tracker_has_imu /\ "motion" \notin fail THEN "success" ELSE "error")
    ELSE "error"

\* POST /command, served by the Flask thread
ExecuteCommand(command, caps, fail) ==
    /\ trackerPc = "running"
    /\ trackerOp' = [NoTrackerOp EXCEPT
                         !.op = "execute_command", !.command = command,
                         !.status = CommandStatus(command, fail),
                         !.missing = command \in MovementActions /\ ~tracker_has_imu,
                         !.called = CommandCalls(command, caps),
                         !.failed = CommandCalls(command, caps) \cap fail]
    /\ UNCHANGED <<trackerPc, largest_person_bbox, frames_since_last_detection,
                   tracker_auto_mode, trackerConfig, person_gone, missed_results>>
    /\ UNCHANGED <<relayVars, clientVars, filterVars, appVars, linkVars>>

NextTracker ==
    \/ \E imu, fallback, yolo \in BOOLEAN : TrackerSetup(imu, fallback, yolo)
    \/ \E outcome \in Outcomes : TrackerCycle(outcome)
    \/ EnvPerson
    \/ ToggleMode
    \/ \E command \in TrackerCommands, caps \in SUBSET {"speak", "rgb"} :
           \E fail \in SUBSET CommandCalls(command, caps) : ExecuteCommand(command, caps, fail)

\* the loop of main keeps turning while the program runs
SpecTracker ==
    Init /\ [][NextTracker]_vars /\ WF_vars(\E outcome \in Outcomes : TrackerCycle(outcome))

\* the turns of the loop of a tracker that asks the cloud
NextCloud ==
    \/ \E fallback, yolo \in BOOLEAN : TrackerSetup(TRUE, fallback, yolo)
    \/ \E replies \in [1..(MAX_RETRIES + 1) -> Replies],
          results \in CloudResults \cup LocalResults : CloudCycle(replies, results)

SpecCloud == Init /\ [][NextCloud]_vars

\* the selection alone: every list of up to MaxBoxes detections handed to
\* process_detection_results in a successful result, and to find_closest_person
NextSelect ==
    \/ \E detections \in BoxLists(MaxBoxes) \ {<<>>} :
           ProcessDetectionResults(ResultsSuccess(detections))
    \/ \E boxes \in BoxLists(MaxBoxes) : FindClosestPersonCall(boxes)

SpecSelect == Init /\ [][NextSelect]_vars

\* call after call of process_detection_results, with results that are None,
\* not successful, or successful with at most one detection
ProcessResults == {ResultsNone, ResultsFailed} \cup {ResultsSuccess(l) : l \in BoxLists(1)}

NextProcess == \E results \in ProcessResults : ProcessDetectionResults(results)

SpecProcess == Init /\ [][NextProcess]_vars

\* ------------------------------------------- calls of get_reliable_distance
\* what one read of the sensor can give: None, numbers outside the valid
\* range, its lower end, numbers inside
Readings == {RawNone, -5, 0, 42, 45, 1500}
Programs == {"client", "tracker"}

\* one call of get_reliable_distance() by program who, whose max_attempts
\* reads of the sensor give the values in window; readings keeps every value
\* read so far
FilterCall(who, window) ==
    /\ Len(readings) + MAX_ATTEMPTS <= MaxFeed
    /\ readings' = readings \o window
    /\ readPos' = Len(readings)
    /\ filterOp' = [op |-> "filter", who |-> who, window |-> window,
                    result |-> GetReliableDistance(who, window)]
    /\ UNCHANGED <<relayVars, clientVars, trackerVars, appVars, linkVars>>

NextFilter ==
    \E who \in Programs, window \in [1..MAX_ATTEMPTS -> Readings] : FilterCall(who, window)

SpecFilter == Init /\ [][NextFilter]_vars

\* ------------------------------------------------------- app.py: load_model
\* A thread is preempted between any two bytecodes: a step below is one read
\* or one write of a global, with the thread-local code around it.
LoaderThreads == 1..MaxLoaders
FreeLoaders == {t \in LoaderThreads : loaders[t] = "unused"}

\* threading.Thread(target=load_model).start(): the new thread is at the
\* first line of load_model
LoadersAfterStart ==
    [loaders EXCEPT ![CHOOSE t \in FreeLoaders : \A u \in FreeLoaders : t <= u] = "line45"]

\* the positions of load_model between "model_loading = True" and its return
Loading == {"line54", "line83", "line85", "line86"}

\* __main__: threading.Thread(target=load_model_thread).start()
StartupThread ==
    /\ ~hooked
    /\ \A t \in LoaderThreads : loaders[t] = "unused"
    /\ loaders' = LoadersAfterStart
    /\ appOp' = [NoAppOp EXCEPT !.op = "startup"]
    /\ UNCHANGED <<app_model, model_loading, app_model_loaded, requests, hooked>>
    /\ UNCHANGED <<relayVars, clientVars, trackerVars, filterVars, linkVars>>

\* the hook of before_first_request, run when the first request arrives
BeforeFirstRequest ==
    /\ ~hooked
    /\ hooked' = TRUE
    /\ ~app_model_loaded /\ ~model_loading => FreeLoaders # {}
    /\ loaders' = IF ~app_model_loaded /\ ~model_loading THEN LoadersAfterStart ELSE loaders
    /\ appOp' = [NoAppOp EXCEPT !.op = "before_first_request"]
    /\ UNCHANGED <<app_model, model_loading, app_model_loaded, requests>>
    /\ UNCHANGED <<relayVars, clientVars, trackerVars, filterVars, linkVars>>

\* one step of thread t in load_model; ok: the call of the step (YOLO(...),
\* the warm-up inference) does not raise.
\*   line45  if model_loading: return False
\*   line48  if model_loaded: return True
\*   line51  model_loading = True
\*   line54  model = YOLO(model_name); the except clause sets model_loading
\*           to False
\*   line83  model(dummy_img, ...), the same
\*   line85  model_loaded = True
\*   line86  model_loading = False
LoaderStep(t, ok) ==
    /\ loaders[t] \notin {"unused", "returned"}
    /\ loaders' = [loaders EXCEPT ![t] =
           CASE loaders[t] = "line45" -> IF model_loading THEN "returned" ELSE "line48"
             [] loaders[t] = "line48" -> IF app_model_loaded THEN "returned" ELSE "line51"
             [] loaders[t] = "line51" -> "line54"
             [] loaders[t] = "line54" -> IF ok THEN "line83" ELSE "returned"
             [] loaders[t] = "line83" -> IF ok THEN "line85" ELSE "returned"
             [] loaders[t] = "line85" -> "line86"
             [] OTHER -> "returned"]
    /\ model_loading' =
           CASE loaders[t] = "line51" -> TRUE
             [] loaders[t] \in {"line54", "line83"} -> (IF ok THEN model_loading ELSE FALSE)
             [] loaders[t] = "line86" -> FALSE
             [] OTHER -> model_loading
    /\ app_model' = IF loaders[t] = "line54" /\ ok THEN "yolo" ELSE app_model
    /\ app_model_loaded' = (app_model_loaded \/ loaders[t] = "line85")
    /\ appOp' = [NoAppOp EXCEPT !.op = loaders[t], !.thread = t]
    /\ UNCHANGED <<requests, hooked>>
    /\ UNCHANGED <<relayVars, clientVars, trackerVars, filterVars, linkVars>>

\* ---------------------------------------------------- app.py: POST /detect
\* a request with a valid image arrives (the hook of before_first_request
\* has run): its handler is at its first test
DetectArrives(r) ==
    /\ requests[r] = "unused"
    /\ hooked
    /\ requests' = [requests EXCEPT ![r] = "line145"]
    /\ appOp' = [NoAppOp EXCEPT !.op = "arrives", !.thread = r]
    /\ UNCHANGED <<app_model, model_loading, app_model_loaded, loaders, hooked>>
    /\ UNCHANGED <<relayVars, clientVars, trackerVars, filterVars, linkVars>>

\* one step of the handler of request r.
\*   line145  if not model_loaded and not model_loading: start a thread that
\*            runs load_model, answer 503
\*   line151  if model_loading: answer 503
\*   line176  results = model(img, ...): 200 with the detections, or 500 when
\*            the call raises (model is None)
DetectStep(r) ==
    /\ requests[r] \in {"line145", "line151", "line176"}
    /\ requests[r] = "line145" /\ ~app_model_loaded /\ ~model_loading => FreeLoaders # {}
    /\ requests' = [requests EXCEPT ![r] =
           CASE requests[r] = "line145" ->
                    IF ~app_model_loaded /\ ~model_loading THEN "answered" ELSE "line151"
             [] requests[r] = "line151" -> IF model_loading THEN "answered" ELSE "line176"
             [] OTHER -> "answered"]
    /\ loaders' = IF requests[r] = "line145" /\ ~app_model_loaded /\ ~model_loading
                  THEN LoadersAfterStart ELSE loaders
    /\ appOp' = [NoAppOp EXCEPT
                     !.op = requests[r], !.thread = r,
                     !.http = CASE requests[r] = "line176" ->
                                       IF app_model = "None" THEN 500 ELSE 200
                                [] requests[r] = "line145" ->
                                       IF ~app_model_loaded /\ ~model_loading THEN 503 ELSE 0
                                [] OTHER -> IF model_loading THEN 503 ELSE 0]
    /\ UNCHANGED <<app_model, model_loading, app_model_loaded, hooked>>
    /\ UNCHANGED <<relayVars, clientVars, trackerVars, filterVars, linkVars>>

\* the detection service: its loading threads and its requests
NextApp ==
    \/ StartupThread
    \/ BeforeFirstRequest
    \/ \E t \in LoaderThreads, ok \in BOOLEAN : LoaderStep(t, ok)
    \/ \E r \in 1..MaxRequests : DetectArrives(r)
    \/ \E r \in 1..MaxRequests : DetectStep(r)

SpecApp == Init /\ [][NextApp]_vars

\* --------------------------------------- pidog_client.py: websocket threads
\* send_queue.put(json.dumps(...)) of a message of the given type
QueueAfterPut(type) == Append(send_queue, [type |-> type, id |-> put_count + 1])

\* websocket_connection_manager: "if not ws_connected:" creates a
\* WebSocketApp, assigns it to ws and starts the thread that runs it
ManagerConnect ==
    /\ managerPc = "test"
    /\ ~ws_connected
    /\ \E k \in 1..MaxSockets :
           /\ sockets[k] = "unused"
           /\ \A j \in 1..(k - 1) : sockets[j] # "unused"
           /\ sockets' = [sockets EXCEPT ![k] = "connecting"]
           /\ ws' = k
    /\ managerPc' = "waiting"
    /\ linkOp' = [NoLinkOp EXCEPT !.op = "manager_connect"]
    /\ UNCHANGED <<ws_connected, send_queue, sending, put_count>>
    /\ UNCHANGED <<relayVars, clientVars, trackerVars, filterVars, appVars>>

\* the manager's wait is over: it saw ws_connected, or 30 s have gone by;
\* then its sleep of the iteration, and it is back at its test
ManagerWaitEnds ==
    /\ managerPc = "waiting"
    /\ managerPc' = "test"
    /\ linkOp' = [NoLinkOp EXCEPT !.op = "manager_wait_ends"]
    /\ UNCHANGED <<ws, ws_connected, sockets, send_queue, sending, put_count>>
    /\ UNCHANGED <<relayVars, clientVars, trackerVars, filterVars, appVars>>

\* run_forever of WebSocketApp k completes the handshake and calls on_open,
\* which sets ws_connected and puts the initial status on send_queue
SocketOpens(k) ==
    /\ sockets[k] = "connecting"
    /\ sockets' = [sockets EXCEPT ![k] = "open"]
    /\ ws_connected' = TRUE
    /\ send_queue' = QueueAfterPut("status_response")
    /\ put_count' = put_count + 1
    /\ linkOp' = [NoLinkOp EXCEPT !.op = "on_open"]
    /\ UNCHANGED <<ws, sending, managerPc>>
    /\ UNCHANGED <<relayVars, clientVars, trackerVars, filterVars, appVars>>

\* the connection of WebSocketApp k fails or is closed: run_forever calls
\* on_close, which clears ws_connected
SocketEnds(k) ==
    /\ sockets[k] \in {"connecting", "open"}
    /\ sockets' = [sockets EXCEPT ![k] = "closed"]
    /\ ws_connected' = FALSE
    /\ linkOp' = [NoLinkOp EXCEPT !.op = "on_close"]
    /\ UNCHANGED <<ws, send_queue, sending, managerPc, put_count>>
    /\ UNCHANGED <<relayVars, clientVars, trackerVars, filterVars, appVars>>

\* another thread puts a message on send_queue: on_message its
\* command_response (it runs for a message of an open connection),
\* send_status_update and send_ping theirs when ws_connected
Put(type) ==
    /\ put_count < MaxQueue
    /\ type = "command_response" => \E k \in 1..MaxSockets : sockets[k] = "open"
    /\ type = "status_update" => ws_connected
    /\ send_queue' = QueueAfterPut(type)
    /\ put_count' = put_count + 1
    /\ linkOp' = [NoLinkOp EXCEPT !.op = "put"]
    /\ UNCHANGED <<ws, ws_connected, sockets, sending, managerPc>>
    /\ UNCHANGED <<relayVars, clientVars, trackerVars, filterVars, appVars>>

\* websocket_sender_thread: "if ws_connected:" and send_queue.get gives a
\* message
SenderTake ==
    /\ sending = NoMessage
    /\ ws_connected
    /\ send_queue # <<>>
    /\ sending' = Head(send_queue)
    /\ send_queue' = Tail(send_queue)
    /\ linkOp' = [NoLinkOp EXCEPT !.op = "get", !.message = Head(send_queue)]
    /\ UNCHANGED <<ws, ws_connected, sockets, managerPc, put_count>>
    /\ UNCHANGED <<relayVars, clientVars, trackerVars, filterVars, appVars>>

\* websocket_sender_thread: ws.send(message) on the WebSocketApp ws names now.
\* It raises unless that connection is open; "except Exception" clears
\* ws_connected and leaves send_queue as it is.
SenderSend ==
    /\ sending # NoMessage
    /\ sending' = NoMessage
    /\ ws_connected' = IF ws # 0 /\ sockets[ws] = "open" THEN ws_connected ELSE FALSE
    /\ linkOp' = [NoLinkOp EXCEPT !.op = "send", !.message = sending,
                                  !.delivered = (ws # 0 /\ sockets[ws] = "open")]
    /\ UNCHANGED <<ws, sockets, send_queue, managerPc, put_count>>
    /\ UNCHANGED <<relayVars, clientVars, trackerVars, filterVars, appVars>>

\* the websocket threads of the client and the connections they make
NextLink ==
    \/ ManagerConnect
    \/ ManagerWaitEnds
    \/ \E k \in 1..MaxSockets : SocketOpens(k)
    \/ \E k \in 1..MaxSockets : SocketEnds(k)
    \/ \E type \in {"command_response", "status_update"} : Put(type)
    \/ SenderTake
    \/ SenderSend

SpecLink == Init /\ [][NextLink]_vars

\* the distance thread of the client with a sensor whose reads give any of
\* Readings, and the set_mode commands that switch auto_mode
NextSensor ==
    \/ \E imu, rgb, speak, sensor \in BOOLEAN : InitializeHardware(imu, rgb, speak, sensor)
    \/ ClientTick
    \/ \E window \in [1..MAX_ATTEMPTS -> Readings], bark20 \in BOOLEAN :
           SensorCycle(window, bark20)
    \/ SensorRgb
    \/ SensorBark
    \/ \E mode \in {"auto", "manual"}, connected \in BOOLEAN :
           OnMessage(SetModeCommand(mode), {}, connected)

SpecSensor == Init /\ [][NextSensor]_vars

\* the command_response messages among those a step put on send_queue
Responses(queued) == SelectSeq(queued, LAMBDA x : x.type = "command_response")

\* C11: while auto_mode is false the controller issues no autonomous
\* actuator command, whatever the interleaving of the control loop with the
\* operator's set_mode: every call of the Pidog object by
\* distance_sensor_thread is made in a state where auto_mode is true.
C11_NoAutonomousCommandInManual == clientOp.op = "autonomous" => auto_mode

\* C12: a command of type control with action forward, received in manual
\* mode by a client whose actuator executes the action without raising,
\* puts one command_response with status success on send_queue.
C12_ForwardInManualSucceeds ==
    (/\ clientOp.op = "on_message"
     /\ clientOp.command_type = "control" /\ clientOp.action = "forward"
     /\ clientOp.manual /\ has_imu /\ clientOp.failed = {})
    => Responses(clientOp.queued) = <<CommandResponse("success")>>
\* forward was received in manual mode and do_action was called
C12_Witness ==
    /\ clientOp.op = "on_message"
    /\ clientOp.command_type = "control" /\ clientOp.action = "forward"
    /\ clientOp.manual /\ clientOp.called = {"motion"} /\ clientOp.failed = {}

\* C13: every command a client receives yields at most one
\* command_response, whatever its type and whether it succeeds or fails.
C13_AtMostOneResponse ==
    clientOp.op = "on_message" => Len(Responses(clientOp.queued)) <= 1
\* a command whose actuator call raised, answered once, and a control
\* command answered once beside the status update that follows it
C13_Witness ==
    /\ clientOp.op = "on_message"
    /\ Len(Responses(clientOp.queued)) = 1
    /\ clientOp.failed # {} \/ Len(clientOp.queued) = 2

\* C14: whenever a control, rgb_control or speak command cannot be executed,
\* because the capability it needs is missing or because the actuator
\* raises, exactly one command_response is produced and its status is error.
C14_FailureAnsweredWithError ==
    (/\ clientOp.op = "on_message"
     /\ clientOp.command_type \in {"control", "rgb_control", "speak"}
     /\ clientOp.missing \/ (clientOp.called # {} /\ clientOp.failed = clientOp.called))
    => Responses(clientOp.queued) = <<CommandResponse("error")>>

\* BARK_INTERVAL is a configuration input: values of it, in units of 0.5 s
BarkIntervals == {6, 12}
Abs(x) == IF x < 0 THEN -x ELSE x

\* C16: with auto_mode on and the target at distance 10 without
\* interruption for T, on a robot able to bark, the number of autonomous
\* bark calls is floor(T / (BARK_INTERVAL / 3)) give or take one, for every
\* BARK_INTERVAL; T and the count are read while the control loop sleeps.
C16_BarkRate ==
    \A bi \in BarkIntervals :
        (/\ steadySince # NotSteady /\ has_imu /\ has_speak
         /\ distPc = "sleeping" /\ sensWake > clock)
        => Abs(barks - ((3 * (clock - steadySince)) \div bi)) <= 1

\* C18: with auto_mode on, every accepted distance below EXPLOSION_DISTANCE
\* triggers the alert in that cycle of the control loop, on a robot that has
\* a device to alert with.
C18_CloseTargetAlerts ==
    (/\ clientOp.op = "sensor_cycle"
     /\ clientOp.auto
     /\ clientOp.accepted # NoDistance
     /\ clientOp.accepted < Centi(EXPLOSION_DISTANCE)
     /\ has_rgb \/ has_speak)
    => distPc \in {"explosion_rgb", "explosion_bark"}

\* the last n elements of q, or all of q when it has fewer
LastN(q, n) == SubSeq(q, IF Len(q) > n THEN Len(q) - n + 1 ELSE 1, Len(q))

AcceptedAt(who, window) ==
    {i \in DOMAIN window :
        /\ window[i] # RawNone
        /\ IF who = "tracker" THEN window[i] > 0 ELSE window[i] >= 0
        /\ window[i] < 1000}
RECURSIVE SumAt(_, _)
SumAt(window, at) ==
    IF at = {} THEN 0
    ELSE LET i == CHOOSE j \in at : TRUE IN window[i] + SumAt(window, at \ {i})

C17_LostTargetCleared ==
    [](largest_person_bbox # "None" /\ person_gone
       => <>(largest_person_bbox = "None" \/ ~person_gone))

\* C19: ingesting a status_update as the client emits it merges its fields
\* into the status the hub stores for the client: after the hub has handled
\* the message, the client has a status entry and its has_camera is the one
\* the message carries.
C19_StatusUpdateMerged ==
    [][\A w \in Conns :
          HandlerReceive(w, ClientStatusUpdate)
          => /\ client_status'[wsClient[w]].present
             /\ client_status'[wsClient[w]].has_camera = ClientStatusData.has_camera]_vars

\* C20: a message of a kind the hub does not know is dropped without
\* effect: the session stays connected, and the stored frame, detection and
\* status of every client are what they were.
C20_UnknownKindDropped ==
    [][\A w \in Conns, m \in UnknownKindMessages :
          HandlerReceive(w, m)
          => /\ wsState'[w] = "open"
             /\ UNCHANGED <<wsState, wsClient, active_connections, clients>>
             /\ UNCHANGED <<latest_frames, latest_detections, client_status>>]_vars
\* a message of unknown kind arrived from a client with a frame, a detection
\* and a status stored
C20_Witness == lastOp.op = "unknown_message" /\ lastOp.had

\* C21: Connect(c) creates a session with empty detections: right after
\* Connect(c), whatever happened to client id c before,
\* QueryLatestDetection(c) answers NotFound.
C21_ConnectStartsWithoutDetection ==
    [][\A c \in Clients :
          Connect(c) => (QueryLatestDetection(c) = DetectionNotFound)']_vars

\* C22: while a detect_persons call for one session is outstanding, the hub
\* stays able to ingest telemetry from every other session: the handler of
\* an open websocket of another client can take its receive step.
C22_IngestWhileDetecting ==
    \A c \in Clients, w \in Conns :
        (outstanding[c] > 0 /\ wsState[w] = "open" /\ wsClient[w] # c)
        => ENABLED HandlerReceive(w, HubCameraFrame(1))

\* C23: a client whose websocket handler is still running (accepted, not
\* yet terminated) has an entry in clients and in active_connections, also
\* after an older connection with the same client id has terminated.
C23_RunningHandlerIsRegistered ==
    \A w \in Conns :
        wsState[w] \in {"open", "peer_closed"}
        => wsClient[w] \in clients /\ active_connections[wsClient[w]] # NoConn

\* C24: a command sent through send_command of the hub reaches the client
\* as a message that on_message dispatches to the handler of its
\* command_type: when the client handles the message the hub wrote for the
\* command, it runs the branch of that command_type.
C24_HubCommandDispatched ==
    [][\A k \in OperatorCommands, connected \in BOOLEAN :
          OnMessage(SendCommandMessage(k.command_type, k.data), {}, connected)
          => clientOp'.command_type = k.command_type]_vars

\* C25: the timestamp stored with a client's latest detection is
\* the time at which the detection completed: it is never earlier than the
\* moment detect_persons returned the result.
C25_TimestampIsCompletionTime ==
    [][\A c \in Clients, o \in DetectorOutcomes :
          DetectorReturn(c, o) => latest_detections'[c].timestamp >= now]_vars

\* C26: once Disconnect(c) has removed the session of c, no detection
\* result is written for c until c connects again: while c has no session,
\* QueryLatestDetection(c) answers NotFound.
C26_NoDetectionWithoutSession ==
    \A c \in Clients :
        c \notin clients => QueryLatestDetection(c) = DetectionNotFound

\* C27: whenever a successful result with at least one detection has been
\* processed, the target is set and frames_since_last_detection is 0, for
\* every list of boxes, boxes of area zero included.
C27_DetectionSetsTarget ==
    (/\ trackerOp.op = "process_detection_results"
     /\ trackerOp.command = "success"
     /\ trackerOp.boxes # <<>>)
    => largest_person_bbox # "None" /\ frames_since_last_detection = 0

C29_TargetKeptWithinPersistence ==
    [][(largest_person_bbox # "None" /\ largest_person_bbox' = "None")
       => missed_results' > DETECTION_PERSISTENCE]_vars

\* C30: a reading is accepted only if it lies strictly inside (0, 1000): in
\* the client as in the tracker, what get_reliable_distance returns is the
\* average of the values of its reads that are strictly inside the range,
\* and nothing when there is none; a reading of exactly 0 plays no part.
C30_ZeroNeverAccepted ==
    filterOp.op = "filter"
    => filterOp.result =
           (IF ValidSamples(filterOp.window) = <<>> THEN NoDistance
            ELSE Round2(SumSeq(ValidSamples(filterOp.window)),
                        Len(ValidSamples(filterOp.window))))

\* C31: a control cycle that obtains no valid distance sample (none of its
\* reads lies strictly inside the range) has no distance: it issues no bark
\* and no alert, and no distance is accepted for it, 0 in particular.
C31_NoSampleNoAction ==
    (clientOp.op = "sensor_cycle" /\ clientOp.unknown)
    => clientOp.accepted = NoDistance /\ distPc = "sleeping"

\* C34: while auto_mode is true an operator's control action other than bark
\* and aggressive_mode is refused and calls nothing of the Pidog object, in
\* the client as in the tracker.
C34_AutoModeRefusesOperatorAction ==
    /\ (/\ clientOp.op = "on_message" /\ clientOp.command_type = "control"
         /\ ~clientOp.manual
         /\ clientOp.action \notin {"bark", "aggressive_mode"})
        => clientOp.called = {}
    /\ (/\ trackerOp.op = "execute_command"
         /\ tracker_auto_mode
         /\ trackerOp.command \notin {"bark", "aggressive_mode"})
        => trackerOp.called = {} /\ trackerOp.status = "error"

\* C35: a cloud detection call ends after at most MAX_RETRIES + 1 requests,
\* the first one answered with status 200 being the last; when every request
\* fails the turn uses the local detector if the fallback is enabled and a
\* local model is loaded, and otherwise processes no detection in that turn.
C35_BoundedRetriesThenFallback ==
    trackerOp.op = "cloud_cycle" =>
        LET answered == {i \in 1..(MAX_RETRIES + 1) : trackerOp.replies[i] = "ok"}
        IN  /\ trackerOp.requests \in 1..(MAX_RETRIES + 1)
            /\ \A i \in answered : trackerOp.requests <= i
            /\ answered = {} => trackerOp.requests = MAX_RETRIES + 1
            /\ answered # {} => trackerOp.command = "cloud"
            /\ (answered = {} /\ local_fallback /\ tracker_model # "None")
                   => /\ trackerOp.command = "local"
                      /\ "detect_persons_local" \in trackerOp.called
            /\ (answered = {} /\ ~(local_fallback /\ tracker_model # "None"))
                   => /\ trackerOp.command = "none"
                      /\ trackerOp.called = {"detect_persons_cloud"}
\* every request of a call failed and the local model answered
C35_Witness ==
    /\ trackerOp.op = "cloud_cycle"
    /\ \A i \in 1..(MAX_RETRIES + 1) : trackerOp.replies[i] # "ok"
    /\ trackerOp.requests = MAX_RETRIES + 1
    /\ trackerOp.command = "local"
    /\ "process_detection_results" \in trackerOp.called

\* C40: the counter the loop of main reads when it handles the target is
\* defined whenever it is read: a turn of the loop that has a target to handle
\* leaves the loop running.
C40_TargetHandlingKeepsLoopRunning ==
    (trackerOp.op \in {"cycle", "cloud_cycle"} /\ largest_person_bbox # "None")
    => trackerPc = "running"

\* C36: load_model loads the model only once: at most one thread is between
\* "model_loading = True" and its return at any time, and no thread is
\* loading a model once model_loaded is true.
C36_ModelLoadedOnce ==
    /\ Cardinality({t \in LoaderThreads : loaders[t] \in Loading}) <= 1
    /\ \A t \in LoaderThreads : loaders[t] \in {"line54", "line83"} => ~app_model_loaded

\* C37: POST /detect runs the inference only when the model is loaded: a
\* handler that has called model(img, ...) did so with model_loaded true;
\* otherwise the request was answered with 503.
C37_InferenceOnlyWhenLoaded ==
    appOp.op = "line176" => app_model_loaded /\ appOp.http = 200

\* C38: the client has at most one open WebSocket connection at any time.
C38_AtMostOneOpenConnection ==
    Cardinality({k \in 1..MaxSockets : sockets[k] = "open"}) <= 1

\* C39: a message the sender thread took from send_queue is delivered to the
\* server or kept for a later attempt.
C39_TakenMessageNotLost ==
    linkOp.op = "send"
    => \/ linkOp.delivered
       \/ \E i \in 1..Len(send_queue) : send_queue[i] = linkOp.message

====
